---- MODULE Spec2Model ----
(***************************************************************************)
(* s3rm: the elastic worker pool (pool.go), the delete task with its       *)
(* backoff retry, the throttle feedback goroutine, the aggregation         *)
(* goroutine and the scan loop of main (main.go), and the two scanners     *)
(* (scanner.go).                                                           *)
(*                                                                         *)
(* Go semantics used: a send on a buffered channel blocks while the buffer *)
(* is full; a send on an unbuffered channel completes together with a      *)
(* receive; a receive on a closed channel yields the buffered values first *)
(* and reports !ok only when the buffer is empty; select picks any ready   *)
(* case; os.Exit and the return of main stop every goroutine.              *)
(* backoff.RetryNotify(op, b, notify) calls op; on nil it returns nil; on  *)
(* a *PermanentError it returns the wrapped error; otherwise it asks       *)
(* b.NextBackOff(), returns the error when that is Stop, and else calls    *)
(* notify, sleeps and calls op again.  NewExponentialBackOff() has         *)
(* MaxElapsedTime = 15 minutes: NextBackOff() is Stop once that much wall  *)
(* time has passed since the retry began.  Time is not modelled, so Stop   *)
(* is a choice open at every failed attempt.                               *)
(***************************************************************************)
EXTENDS Integers, Sequences, FiniteSets, Bags, TLC

\* ---------------------------------------------------------------- bounds
MaxPool == 3        \* largest -pool value explored
MaxKeys == 2        \* largest number of keys in the file / under the prefix
MaxBatchSize == 2   \* largest batch size explored (main uses DefaultBatchSize)
MaxSlowDowns == 2   \* SlowDown answers of the store explored per run
MaxBlocked == 2     \* batches of the source beyond the task queue's capacity (SpecFull)
MaxResize == 2      \* largest size asked of Pool.Resize (SpecResize)
MaxResizes == 3     \* Pool.Resize calls explored per run (SpecResize)
MaxThrottles == 3   \* SlowDown answers of the store explored per run (SpecThrottle)
MaxErrBlocked == 2  \* batches of the source beyond the error queue's capacity (SpecErrFull)
MaxLines == 6       \* largest number of keys of the source (SpecScan)
MaxScanBatch == 3   \* largest batch size asked of Scan (SpecScan)

\* ------------------------------------------------------ program constants
TasksCap == 128     \* make(chan Task, 128)
ErrorsCap == 10     \* make(chan error, 10)
DeletedCap == 128   \* make(chan []*s3.ObjectIdentifier, 128)

VARIABLES
    flagPool, flagDryrun, flagOutput, flagFile, \* flags (flagFile: -file given, else -prefix)
    batchSize,                                  \* main's batchSize
    numKeys,                                    \* lines of the file / objects under the prefix
    scanner,                                    \* [buf, pos, err, ioerr]
    mainpc, exitCode,                           \* main's position; -1 while the process runs
    Size, tasks, closed, errors, wg, mu,        \* Pool (closed: close(p.tasks) was called)
    workers,                                    \* the live worker goroutines: a bag of
                                                \* [pc: position, task: task held]
    fbpc, resizeTo,                             \* throttle feedback goroutine's position;
                                                \* the size argument of its Resize call
    deletedObjects,                             \* channel of reported batches
    totalObjects, totalDeletedObjects,          \* counters
    outputFile,                                 \* lines written to the -output file
    hist,                                       \* per submitted task: what happened to it
    dequeued,                                   \* task ids in the order workers received them
    late,                                       \* tasks whose throttle signal was pending
                                                \* (its worker blocked in slowDown <- 1)
                                                \* when the feedback goroutine accepted
                                                \* the signal of another worker
    resized,                                    \* the size arguments of the Pool.Resize calls
                                                \* made since NewPool returned
    listed                                      \* the Marker of each ListObjects call made

config == <<flagPool, flagDryrun, flagOutput, flagFile, batchSize, numKeys>>
poolv == <<Size, tasks, closed, errors, wg, mu>>
vars == <<config, scanner, mainpc, exitCode, poolv, workers, fbpc, resizeTo,
          deletedObjects, totalObjects, totalDeletedObjects, outputFile,
          hist, dequeued, late, resized, listed>>

NoTask == [id |-> 0, dryrun |-> FALSE, Objects |-> <<>>]

Running == exitCode = -1

\* Worker goroutines carry no identity: a worker is its position and task.
Worker(pc, task) == [pc |-> pc, task |-> task]
Idle == Worker("idle", NoTask)
Live == BagToSet(workers)

\* worker w goes to position pc holding task
Goes(w, pc, task) == (workers (-) SetToBag({w})) (+) SetToBag({Worker(pc, task)})

\* worker w returns
Returns(w) == workers (-) SetToBag({w})

\* ------------------------------------------------------------- scanners
\* the i-th line of the key file
FileLine(i) == i

RECURSIVE FileScanLoopStrict(_, _, _, _, _, _)
\* FileScanLoop, were Scan to return false at any failed read
FileScanLoopStrict(i, count, buf, pos, ioerr, fail) ==
    IF i >= count THEN [ok |-> TRUE, buf |-> buf, pos |-> pos, ioerr |-> ioerr]
    ELSE LET bad == ioerr \/ (i + 1 = fail)
         IN IF ~bad /\ pos < numKeys
            THEN FileScanLoopStrict(i + 1, count, Append(buf, FileLine(pos + 1)), pos + 1,
                                    bad, fail)
            ELSE [ok |-> FALSE, buf |-> buf, pos |-> pos, ioerr |-> bad]

RECURSIVE FileScanLoop(_, _, _, _, _, _)
\* the for-loop of FileScanner.Scan: i reads done, fail = the read of this
\* call at which the underlying bufio.Scanner hits a read error (0: none)
FileScanLoop(i, count, buf, pos, ioerr, fail) ==
    IF i >= count THEN [ok |-> TRUE, buf |-> buf, pos |-> pos, ioerr |-> ioerr]
    ELSE LET bad == ioerr \/ (i + 1 = fail)
         IN IF ~bad /\ pos < numKeys
            THEN FileScanLoop(i + 1, count, Append(buf, FileLine(pos + 1)), pos + 1, bad, fail)
            ELSE IF Len(buf) = 0
                 THEN [ok |-> FALSE, buf |-> buf, pos |-> pos, ioerr |-> bad]
                 ELSE FileScanLoop(i + 1, count, buf, pos, bad, fail)

FileScannerScan(s, count, fail) ==
    LET r == FileScanLoop(0, count, <<>>, s.pos, s.ioerr, fail)
    IN [ok |-> r.ok,
        s |-> [s EXCEPT !.buf = r.buf, !.pos = r.pos, !.ioerr = r.ioerr]]

\* FileScanner.Err
FileScannerErr(s) == FALSE

RECURSIVE ListFrom(_, _)
\* the remote listing: up to count keys after marker, in key order
ListFrom(marker, count) ==
    IF count = 0 \/ marker >= numKeys THEN <<>>
    ELSE <<marker + 1>> \o ListFrom(marker + 1, count - 1)

\* BucketMarker, were it the first key of the page
BucketMarkerFirst(s) == IF Len(s.buf) > 0 THEN s.buf[1] ELSE 0

\* if len(s.buf) > 0 { marker = s.buf[len(s.buf)-1].Key }; 0: the nil marker
BucketMarker(s) == IF Len(s.buf) > 0 THEN s.buf[Len(s.buf)] ELSE 0

\* BucketScanner.Scan; fail # 0: the list call returns an error
BucketScannerScan(s, count, fail) ==
    LET marker == BucketMarker(s)
        page == ListFrom(marker, count)
    IN IF fail # 0
       THEN [ok |-> FALSE, s |-> [s EXCEPT !.buf = <<>>, !.err = TRUE, !.ioerr = TRUE]]
       ELSE IF Len(page) < 1
            THEN [ok |-> FALSE, s |-> [s EXCEPT !.buf = <<>>]]
            ELSE [ok |-> TRUE, s |-> [s EXCEPT !.buf = page]]

\* BucketScannerErr, were it FileScanner's
BucketScannerErrNil(s) == FALSE

\* BucketScanner.Err
BucketScannerErr(s) == s.err

ScannerScan(s, count, fail) ==
    IF flagFile THEN FileScannerScan(s, count, fail) ELSE BucketScannerScan(s, count, fail)

ScannerErr(s) == IF flagFile THEN FileScannerErr(s) ELSE BucketScannerErr(s)

\* ------------------------------------------------------------------ Init
NewHist == [execs |-> 0, calls |-> 0, slow |-> 0, signals |-> 0, reported |-> 0,
            errs |-> 0, result |-> "none", Objects |-> <<>>]

\* NewPool(size): Resize(size) on the empty pool runs go p.worker() size times
NewPoolWorkers(size) == IF size > 0 THEN [w \in {Idle} |-> size] ELSE EmptyBag

\* -output is given: a run without it is a run with it in which every write
\* succeeds, less the file (the only uses of the flag are the guarded
\* WriteString and its os.Exit).
Init ==
    /\ flagPool \in 1..MaxPool
    /\ flagDryrun \in BOOLEAN
    /\ flagOutput = TRUE
    /\ flagFile \in BOOLEAN
    /\ batchSize \in 1..MaxBatchSize
    /\ numKeys \in 0..MaxKeys
    /\ scanner = [buf |-> <<>>, pos |-> 0, err |-> FALSE, ioerr |-> FALSE]
    /\ mainpc = "scan"
    /\ exitCode = -1
    /\ Size = flagPool
    /\ tasks = <<>>
    /\ closed = FALSE
    /\ errors = <<>>
    /\ wg = flagPool
    /\ mu = FALSE
    /\ workers = NewPoolWorkers(flagPool)
    /\ fbpc = "recv"
    /\ deletedObjects = <<>>
    /\ totalObjects = 0
    /\ totalDeletedObjects = 0
    /\ outputFile = <<>>
    /\ hist = <<>>
    /\ dequeued = <<>>
    /\ late = {}
    /\ resized = <<>>
    /\ listed = <<>>
    /\ resizeTo = flagPool

\* ------------------------------------------------------------- main
\* The list call may fail at any Scan.  Reads of the key file succeed: after
\* a read error bufio.Scanner.Scan returns false for good and FileScanner.Err
\* is nil, so a file whose j-th read fails runs as the file of its first
\* j - 1 lines does.
Fails == IF flagFile THEN {0} ELSE 0..1

\* MainScanWith, were the scan loop to leave totalObjects alone
MainScanWithUncounted(fails) ==
    /\ Running /\ mainpc = "scan"
    /\ \E fail \in fails :
         LET r == ScannerScan(scanner, batchSize, fail)
         IN /\ scanner' = r.s
            /\ totalObjects' = totalObjects
            /\ IF r.ok
               THEN mainpc' = "exec" /\ exitCode' = exitCode
               ELSE IF ScannerErr(r.s)
                    THEN mainpc' = "exit" /\ exitCode' = 1
                    ELSE mainpc' = "close" /\ exitCode' = exitCode
    /\ listed' = IF flagFile THEN listed ELSE Append(listed, BucketMarker(scanner))
    /\ UNCHANGED <<config, resized, poolv, workers, fbpc, resizeTo, deletedObjects,
                   totalDeletedObjects, outputFile, hist, dequeued, late>>

\* for scanner.Scan(batchSize) { totalObjects += len(scanner.Objects()) ...
\* and, when Scan returns false, the scanner.Err() test with os.Exit(1)
MainScanWith(fails) ==
    /\ Running /\ mainpc = "scan"
    /\ \E fail \in fails :
         LET r == ScannerScan(scanner, batchSize, fail)
         IN /\ scanner' = r.s
            /\ IF r.ok
               THEN /\ totalObjects' = totalObjects + Len(r.s.buf)
                    /\ mainpc' = "exec"
                    /\ exitCode' = exitCode
               ELSE /\ totalObjects' = totalObjects
                    /\ IF ScannerErr(r.s)
                       THEN mainpc' = "exit" /\ exitCode' = 1
                       ELSE mainpc' = "close" /\ exitCode' = exitCode
    /\ listed' = IF flagFile THEN listed ELSE Append(listed, BucketMarker(scanner))
    /\ UNCHANGED <<config, resized, poolv, workers, fbpc, resizeTo, deletedObjects,
                   totalDeletedObjects, outputFile, hist, dequeued, late>>

\* the scan loop of a run in which reads of the key file succeed
MainScan == MainScanWith(Fails)

\* PoolExec, were the task queue as small as the error queue
PoolExecSmall(task) ==
    /\ Len(tasks) < ErrorsCap
    /\ tasks' = Append(tasks, task)

\* Pool.Exec: p.tasks <- task
PoolExec(task) ==
    /\ Len(tasks) < TasksCap
    /\ tasks' = Append(tasks, task)

\* pool.Exec(&DeleteTask{dryrun: flagDryrun, ..., Objects: scanner.Objects()})
MainExec ==
    /\ Running /\ mainpc = "exec"
    /\ PoolExec([id |-> Len(hist) + 1, dryrun |-> flagDryrun, Objects |-> scanner.buf])
    /\ hist' = Append(hist, [NewHist EXCEPT !.Objects = scanner.buf])
    /\ mainpc' = "scan"
    /\ UNCHANGED <<config, resized, listed, scanner, exitCode, Size, closed, errors, wg, mu, workers,
                   fbpc, resizeTo, deletedObjects, totalObjects, totalDeletedObjects,
                   outputFile, dequeued, late>>

\* pool.Close()
MainClose ==
    /\ Running /\ mainpc = "close"
    /\ closed' = TRUE
    /\ mainpc' = "wait"
    /\ UNCHANGED <<config, resized, listed, scanner, exitCode, Size, tasks, errors, wg, mu, workers,
                   fbpc, resizeTo, deletedObjects, totalObjects, totalDeletedObjects,
                   outputFile, hist, dequeued, late>>

\* pool.Wait(); printProgress(); return from main
MainWait ==
    /\ Running /\ mainpc = "wait"
    /\ wg = 0
    /\ mainpc' = "done"
    /\ exitCode' = 0
    /\ UNCHANGED <<config, resized, listed, scanner, poolv, workers, fbpc, resizeTo, deletedObjects,
                   totalObjects, totalDeletedObjects, outputFile, hist, dequeued, late>>

\* ------------------------------------------------------------ Pool.worker
\* WorkerTake, were the worker to look at p.kill first
WorkerTakeAfterKill(w) ==
    /\ Running /\ w.pc = "idle"
    /\ fbpc # "kill"
    /\ Len(tasks) > 0
    /\ LET task == Head(tasks)
       IN /\ workers' = Goes(w, "exec", task)
          /\ hist' = [hist EXCEPT ![task.id].execs = @ + 1]
          /\ dequeued' = Append(dequeued, task.id)
    /\ tasks' = Tail(tasks)
    /\ UNCHANGED <<config, resized, listed, scanner, mainpc, exitCode, Size, closed, errors,
                   wg, mu, fbpc, resizeTo, deletedObjects, totalObjects,
                   totalDeletedObjects, outputFile, late>>

\* case task, ok := <-p.tasks (ok): task.Execute() is entered
WorkerTake(w) ==
    /\ Running /\ w.pc = "idle"
    /\ Len(tasks) > 0
    /\ LET task == Head(tasks)
       IN /\ workers' = Goes(w, "exec", task)
          /\ hist' = [hist EXCEPT ![task.id].execs = @ + 1]
          /\ dequeued' = Append(dequeued, task.id)
    /\ tasks' = Tail(tasks)
    /\ UNCHANGED <<config, resized, listed, scanner, mainpc, exitCode, Size, closed, errors, wg, mu, fbpc,
                   resizeTo, deletedObjects, totalObjects, totalDeletedObjects,
                   outputFile, late>>

\* WorkerClosed, were the worker to return as soon as the channel is closed
WorkerClosedEarly(w) ==
    /\ Running /\ w.pc = "idle"
    /\ closed
    /\ workers' = Returns(w)
    /\ wg' = wg - 1
    /\ UNCHANGED <<config, resized, listed, scanner, mainpc, exitCode, Size, tasks, closed, errors, mu,
                   fbpc, resizeTo, deletedObjects, totalObjects,
                   totalDeletedObjects, outputFile, hist, dequeued, late>>

\* case task, ok := <-p.tasks (!ok): return; defer p.wg.Done()
WorkerClosed(w) ==
    /\ Running /\ w.pc = "idle"
    /\ closed /\ Len(tasks) = 0
    /\ workers' = Returns(w)
    /\ wg' = wg - 1
    /\ UNCHANGED <<config, resized, listed, scanner, mainpc, exitCode, Size, tasks, closed, errors, mu,
                   fbpc, resizeTo, deletedObjects, totalObjects,
                   totalDeletedObjects, outputFile, hist, dequeued, late>>

\* WorkerSendErr, were the send best-effort (select with a default case)
WorkerSendErrBestEffort(w) ==
    /\ Running /\ w.pc = "senderr"
    /\ errors' = IF Len(errors) < ErrorsCap THEN Append(errors, w.task.id) ELSE errors
    /\ hist' = [hist EXCEPT ![w.task.id].errs = @ + 1]
    /\ workers' = Goes(w, "idle", NoTask)
    /\ UNCHANGED <<config, resized, listed, scanner, mainpc, exitCode, Size, tasks, closed,
                   wg, mu, fbpc, resizeTo, deletedObjects, totalObjects,
                   totalDeletedObjects, outputFile, dequeued, late>>

\* err != nil: p.errors <- err, then back to the select
WorkerSendErr(w) ==
    /\ Running /\ w.pc = "senderr"
    /\ Len(errors) < ErrorsCap
    /\ errors' = Append(errors, w.task.id)
    /\ hist' = [hist EXCEPT ![w.task.id].errs = @ + 1]
    /\ workers' = Goes(w, "idle", NoTask)
    /\ UNCHANGED <<config, resized, listed, scanner, mainpc, exitCode, Size, tasks, closed, wg, mu, fbpc,
                   resizeTo, deletedObjects, totalObjects, totalDeletedObjects,
                   outputFile, dequeued, late>>

\* ------------------------------------------------------ DeleteTask.Execute
\* deletedObjects <- t.Objects; return nil
ReportDeleted(w) ==
    /\ Len(deletedObjects) < DeletedCap
    /\ deletedObjects' = Append(deletedObjects, w.task.Objects)
    /\ hist' = [hist EXCEPT ![w.task.id].reported = @ + 1, ![w.task.id].result = "nil"]
    /\ workers' = Goes(w, "idle", NoTask)

\* IsDryrun, were the flag not to reach the task
IsDryrunNever(task) == FALSE

\* if t.dryrun
IsDryrun(task) == task.dryrun

\* if t.dryrun { deletedObjects <- t.Objects; return nil }
ExecuteDryrun(w) ==
    /\ Running /\ w.pc = "exec"
    /\ IsDryrun(w.task)
    /\ ReportDeleted(w)
    /\ UNCHANGED <<config, resized, listed, scanner, mainpc, exitCode, poolv, fbpc, resizeTo, totalObjects,
                   totalDeletedObjects, outputFile, dequeued, late>>

RECURSIVE SlowDownsFrom(_)
\* the SlowDown answers the store has given to tasks i..
SlowDownsFrom(i) == IF i > Len(hist) THEN 0 ELSE hist[i].slow + SlowDownsFrom(i + 1)

\* what one call of operation() can end in: the delete succeeded; the store
\* answered SlowDown and the backoff goes on; it answered SlowDown and
\* NextBackOff() is Stop; it answered any other error
Outcomes ==
    {"ok", "Error"} \cup
        (IF SlowDownsFrom(1) < MaxSlowDowns THEN {"SlowDown", "Stop"} ELSE {})

\* AfterCall, were every error retried
AfterCallRetryAll(o) ==
    CASE o = "ok" -> "report"
      [] o = "Stop" -> "senderr"
      [] OTHER -> "notify"

\* AfterCall, were the retry not to notify (backoff.Retry)
AfterCallNoNotify(o) ==
    CASE o = "ok" -> "report"
      [] o = "SlowDown" -> "exec"
      [] OTHER -> "senderr"

\* where the worker goes after a delete call with outcome o
AfterCall(o) ==
    CASE o = "ok" -> "report"
      [] o = "SlowDown" -> "notify"
      [] OTHER -> "senderr"

\* one t.client.DeleteObjects call of operation(), with what RetryNotify
\* does with its result up to the next blocking point
ExecuteDeleteWith(w, outcomes) ==
    /\ Running /\ w.pc = "exec"
    /\ ~IsDryrun(w.task)
    /\ \E o \in outcomes :
         /\ workers' = Goes(w, AfterCall(o), w.task)
         /\ hist' = [hist EXCEPT
                ![w.task.id].calls = @ + 1,
                ![w.task.id].slow = IF o \in {"SlowDown", "Stop"} THEN @ + 1 ELSE @,
                ![w.task.id].result = CASE o = "Stop" -> "SlowDown"
                                        [] o = "Error" -> "Error"
                                        [] OTHER -> @]
    /\ UNCHANGED <<config, resized, listed, scanner, mainpc, exitCode, poolv, fbpc, resizeTo,
                   deletedObjects, totalObjects, totalDeletedObjects, outputFile,
                   dequeued, late>>

\* a delete call of a run in which the store may answer anything
ExecuteDelete(w) == ExecuteDeleteWith(w, Outcomes)

\* the delete succeeded: deletedObjects <- t.Objects; return nil
ExecuteReport(w) ==
    /\ Running /\ w.pc = "report"
    /\ ReportDeleted(w)
    /\ UNCHANGED <<config, resized, listed, scanner, mainpc, exitCode, poolv, fbpc, resizeTo, totalObjects,
                   totalDeletedObjects, outputFile, dequeued, late>>

\* ------------------------------------------- throttle feedback goroutine
\* ResizeBegin, were the shrink loop to send the kill before p.Size--
ResizeBeginKillFirst(size) ==
    /\ mu' = TRUE
    /\ resized' = Append(resized, size)
    /\ resizeTo' = size
    /\ Size' = Size
    /\ fbpc' = "kill"

\* ResizeBegin, were the feedback goroutine to collapse the pool: Resize(1)
ResizeBeginCollapse(size) ==
    /\ mu' = TRUE
    /\ resized' = Append(resized, 1)
    /\ resizeTo' = 1
    /\ Size' = Size - 1
    /\ fbpc' = "kill"

\* Pool.Resize(size) up to its first blocking point: the lock, the grow
\* loop (never entered here: size < p.Size), and the first p.Size-- of the
\* shrink loop, which then blocks in p.kill <- struct{}{}
ResizeBegin(size) ==
    /\ mu' = TRUE
    /\ resized' = Append(resized, size)
    /\ resizeTo' = size
    /\ Size' = Size - 1
    /\ fbpc' = "kill"

\* ShouldShrink, without the floor
ShouldShrinkAlways == Size > 0

\* if pool.Size > 1
ShouldShrink == Size > 1

\* <-slowDown received from worker w (backoffNotify returns, the worker
\* sleeps and calls operation() again); if pool.Size > 1 { pool.Resize(pool.Size - 1) }
FbRecv(w) ==
    /\ Running /\ fbpc = "recv"
    /\ w.pc = "notify"
    /\ workers' = Goes(w, "exec", w.task)
    /\ hist' = [hist EXCEPT ![w.task.id].signals = @ + 1]
    /\ late' = (late \cup {v.task.id : v \in {u \in Live : u.pc = "notify"}}) \ {w.task.id}
    /\ IF ShouldShrink
       THEN ResizeBegin(Size - 1)
       ELSE /\ fbpc' = "sleep"
            /\ UNCHANGED <<mu, resizeTo, Size, resized>>
    /\ UNCHANGED <<config, listed, scanner, mainpc, exitCode, tasks, closed, errors, wg,
                   deletedObjects, totalObjects, totalDeletedObjects, outputFile,
                   dequeued>>

\* FbKill, were the kill signal to reach a worker wherever it is
FbKillAny(w) ==
    /\ Running /\ fbpc = "kill"
    /\ workers' = Returns(w)
    /\ wg' = wg - 1
    /\ IF Size > resizeTo
       THEN /\ Size' = Size - 1
            /\ UNCHANGED <<mu, fbpc>>
       ELSE /\ mu' = FALSE
            /\ fbpc' = "sleep"
            /\ Size' = Size
    /\ UNCHANGED <<config, resized, listed, scanner, mainpc, exitCode, tasks, closed,
                   errors, resizeTo, deletedObjects, totalObjects, totalDeletedObjects,
                   outputFile, hist, dequeued, late>>

\* p.kill <- struct{}{} meets case <-p.kill of idle worker w, which returns
\* (defer p.wg.Done()); Resize goes round its shrink loop, or unlocks and
\* returns into time.Sleep
FbKill(w) ==
    /\ Running /\ fbpc = "kill"
    /\ w.pc = "idle"
    /\ workers' = Returns(w)
    /\ wg' = wg - 1
    /\ IF Size > resizeTo
       THEN /\ Size' = Size - 1
            /\ UNCHANGED <<mu, fbpc>>
       ELSE /\ mu' = FALSE
            /\ fbpc' = "sleep"
            /\ Size' = Size
    /\ UNCHANGED <<config, resized, listed, scanner, mainpc, exitCode, tasks, closed, errors,
                   resizeTo, deletedObjects, totalObjects, totalDeletedObjects,
                   outputFile, hist, dequeued, late>>

\* FbWake, were the feedback goroutine to grow the pool back after the delay
FbWakeGrow ==
    /\ Running /\ fbpc = "sleep"
    /\ fbpc' = "recv"
    /\ IF Size < flagPool
       THEN /\ Size' = Size + 1
            /\ wg' = wg + 1
            /\ workers' = workers (+) NewPoolWorkers(1)
       ELSE UNCHANGED <<Size, wg, workers>>
    /\ UNCHANGED <<config, resized, listed, scanner, mainpc, exitCode, tasks, closed,
                   errors, mu, resizeTo, deletedObjects, totalObjects,
                   totalDeletedObjects, outputFile, hist, dequeued, late>>

\* time.Sleep(time.Second) is over: back to <-slowDown
FbWake ==
    /\ Running /\ fbpc = "sleep"
    /\ fbpc' = "recv"
    /\ UNCHANGED <<config, resized, listed, scanner, mainpc, exitCode, poolv, workers, resizeTo,
                   deletedObjects, totalObjects, totalDeletedObjects, outputFile,
                   hist, dequeued, late>>

\* ------------------------------------------------- aggregation goroutine
\* fmt.Sprintf("delete: %s", *obj.Key)
OutputLine(key) == <<"delete: ", key>>

OutputLines(objects) == [i \in 1..Len(objects) |-> OutputLine(objects[i])]

\* case objects := <-deletedObjects; wrote: outputFile.WriteString succeeded
AggDeleted ==
    /\ Running
    /\ Len(deletedObjects) > 0
    /\ LET objects == Head(deletedObjects)
       IN /\ totalDeletedObjects' = totalDeletedObjects + Len(objects)
          /\ IF flagOutput
             THEN \E wrote \in BOOLEAN :
                    IF wrote
                    THEN /\ outputFile' = outputFile \o OutputLines(objects)
                         /\ exitCode' = exitCode
                    ELSE /\ outputFile' = outputFile
                         /\ exitCode' = 1
             ELSE UNCHANGED <<outputFile, exitCode>>
    /\ deletedObjects' = Tail(deletedObjects)
    /\ UNCHANGED <<config, resized, listed, scanner, mainpc, poolv, workers, fbpc, resizeTo,
                   totalObjects, hist, dequeued, late>>

\* case err := <-pool.errors
AggError ==
    /\ Running
    /\ Len(errors) > 0
    /\ errors' = Tail(errors)
    /\ UNCHANGED <<config, resized, listed, scanner, mainpc, exitCode, Size, tasks, closed, wg, mu, workers,
                   fbpc, resizeTo, deletedObjects, totalObjects,
                   totalDeletedObjects, outputFile, hist, dequeued, late>>

\* ------------------------------------------------------------------ Spec
Next ==
    \/ MainScan
    \/ MainExec
    \/ MainClose
    \/ MainWait
    \/ \E w \in Live : WorkerTake(w)
    \/ \E w \in Live : WorkerClosed(w)
    \/ \E w \in Live : WorkerSendErr(w)
    \/ \E w \in Live : ExecuteDryrun(w)
    \/ \E w \in Live : ExecuteDelete(w)
    \/ \E w \in Live : ExecuteReport(w)
    \/ \E w \in Live : FbRecv(w)
    \/ \E w \in Live : FbKill(w)
    \/ FbWake
    \/ AggDeleted
    \/ AggError

Spec == Init /\ [][Next]_vars

\* ------------------------------------------------- the task queue, full
\* SpecFull starts where main has scanned and submitted PreFilled batches
\* of one key before any worker was scheduled (a dry run of a key file with
\* more keys than the task queue holds, -pool 1), and goes on from there.
PreFilled == TasksCap - 1

InitFull ==
    /\ flagPool = 1
    /\ flagDryrun = TRUE
    /\ flagOutput = FALSE
    /\ flagFile = TRUE
    /\ batchSize = 1
    /\ numKeys = TasksCap + MaxBlocked
    /\ scanner = [buf |-> <<FileLine(PreFilled)>>, pos |-> PreFilled,
                  err |-> FALSE, ioerr |-> FALSE]
    /\ mainpc = "scan"
    /\ exitCode = -1
    /\ Size = flagPool
    /\ tasks = [i \in 1..PreFilled |->
                  [id |-> i, dryrun |-> flagDryrun, Objects |-> <<FileLine(i)>>]]
    /\ closed = FALSE
    /\ errors = <<>>
    /\ wg = flagPool
    /\ mu = FALSE
    /\ workers = NewPoolWorkers(flagPool)
    /\ fbpc = "recv"
    /\ resizeTo = flagPool
    /\ deletedObjects = <<>>
    /\ totalObjects = PreFilled
    /\ totalDeletedObjects = 0
    /\ outputFile = <<>>
    /\ hist = [i \in 1..PreFilled |-> [NewHist EXCEPT !.Objects = <<FileLine(i)>>]]
    /\ dequeued = <<>>
    /\ late = {}
    /\ resized = <<>>
    /\ listed = <<>>

NextFull ==
    \/ MainScan
    \/ MainExec
    \/ MainClose
    \/ MainWait
    \/ \E w \in Live : WorkerTake(w)
    \/ \E w \in Live : WorkerClosed(w)
    \/ \E w \in Live : ExecuteDryrun(w)
    \/ AggDeleted

SpecFull == InitFull /\ [][NextFull]_vars

\* ------------------------------------------------- Pool.Resize, any size
\* SpecResize: a dry run whose pool is resized by a goroutine that calls
\* Pool.Resize with any sizes, one call after the other, while main submits
\* and the workers execute.  fbpc is that goroutine's position: "call"
\* (outside Resize) or "kill" (inside, blocked in p.kill <- struct{}{}).
ShrinkNeededEq(size) == Size >= size

\* for p.Size > size
ShrinkNeeded(size) == Size > size

\* Pool.Resize(size) up to its first blocking point: the lock; the grow
\* loop (p.Size++, p.wg.Add(1), go p.worker() per missing worker); the first
\* p.Size-- of the shrink loop, which then blocks in p.kill <- struct{}{};
\* or, with neither loop entered, the unlock and return
PoolResize(size) ==
    /\ Running /\ fbpc = "call" /\ ~mu
    /\ Len(resized) < MaxResizes
    /\ resized' = Append(resized, size)
    /\ resizeTo' = size
    /\ IF Size < size
       THEN /\ Size' = size
            /\ wg' = wg + (size - Size)
            /\ workers' = workers (+) NewPoolWorkers(size - Size)
            /\ UNCHANGED <<mu, fbpc>>
       ELSE IF ShrinkNeeded(size)
            THEN /\ Size' = Size - 1
                 /\ mu' = TRUE
                 /\ fbpc' = "kill"
                 /\ UNCHANGED <<wg, workers>>
            ELSE UNCHANGED <<Size, wg, workers, mu, fbpc>>
    /\ UNCHANGED <<config, listed, scanner, mainpc, exitCode, tasks, closed, errors,
                   deletedObjects, totalObjects, totalDeletedObjects, outputFile,
                   hist, dequeued, late>>

\* p.kill <- struct{}{} meets case <-p.kill of idle worker w, which returns
\* (defer p.wg.Done()); Resize goes round its shrink loop, or unlocks and
\* returns to its caller
PoolResizeKill(w) ==
    /\ Running /\ fbpc = "kill"
    /\ w.pc = "idle"
    /\ workers' = Returns(w)
    /\ wg' = wg - 1
    /\ IF ShrinkNeeded(resizeTo)
       THEN /\ Size' = Size - 1
            /\ UNCHANGED <<mu, fbpc>>
       ELSE /\ mu' = FALSE
            /\ fbpc' = "call"
            /\ Size' = Size
    /\ UNCHANGED <<config, resized, listed, scanner, mainpc, exitCode, tasks, closed,
                   errors, resizeTo, deletedObjects, totalObjects, totalDeletedObjects,
                   outputFile, hist, dequeued, late>>

InitResize ==
    /\ flagPool \in 1..MaxResize
    /\ flagDryrun = TRUE
    /\ flagOutput = TRUE
    /\ flagFile = TRUE
    /\ batchSize = 1
    /\ numKeys \in 0..MaxKeys
    /\ scanner = [buf |-> <<>>, pos |-> 0, err |-> FALSE, ioerr |-> FALSE]
    /\ mainpc = "scan"
    /\ exitCode = -1
    /\ Size = flagPool
    /\ tasks = <<>>
    /\ closed = FALSE
    /\ errors = <<>>
    /\ wg = flagPool
    /\ mu = FALSE
    /\ workers = NewPoolWorkers(flagPool)
    /\ fbpc = "call"
    /\ resizeTo = flagPool
    /\ deletedObjects = <<>>
    /\ totalObjects = 0
    /\ totalDeletedObjects = 0
    /\ outputFile = <<>>
    /\ hist = <<>>
    /\ dequeued = <<>>
    /\ late = {}
    /\ resized = <<>>
    /\ listed = <<>>

NextResize ==
    \/ MainScan
    \/ MainExec
    \/ \E w \in Live : WorkerTake(w)
    \/ \E w \in Live : ExecuteDryrun(w)
    \/ AggDeleted
    \/ \E size \in 0..MaxResize : PoolResize(size)
    \/ \E w \in Live : PoolResizeKill(w)

SpecResize == InitResize /\ [][NextResize]_vars

\* ------------------------------------------ throttling that always ends
\* SpecThrottle: a run over a key file in which every delete call either
\* succeeds or is answered SlowDown, the backoff never stops, and every
\* task's delete succeeds after at most MaxThrottles SlowDown answers.
ThrottleOutcomes ==
    {"ok"} \cup (IF SlowDownsFrom(1) < MaxThrottles THEN {"SlowDown"} ELSE {})

InitThrottle ==
    /\ flagPool \in 1..MaxPool
    /\ flagDryrun = FALSE
    /\ flagOutput = TRUE
    /\ flagFile = TRUE
    /\ batchSize = 1
    /\ numKeys \in 0..MaxKeys
    /\ scanner = [buf |-> <<>>, pos |-> 0, err |-> FALSE, ioerr |-> FALSE]
    /\ mainpc = "scan"
    /\ exitCode = -1
    /\ Size = flagPool
    /\ tasks = <<>>
    /\ closed = FALSE
    /\ errors = <<>>
    /\ wg = flagPool
    /\ mu = FALSE
    /\ workers = NewPoolWorkers(flagPool)
    /\ fbpc = "recv"
    /\ resizeTo = flagPool
    /\ deletedObjects = <<>>
    /\ totalObjects = 0
    /\ totalDeletedObjects = 0
    /\ outputFile = <<>>
    /\ hist = <<>>
    /\ dequeued = <<>>
    /\ late = {}
    /\ resized = <<>>
    /\ listed = <<>>

NextThrottle ==
    \/ MainScan
    \/ MainExec
    \/ MainClose
    \/ MainWait
    \/ \E w \in Live : WorkerTake(w)
    \/ \E w \in Live : WorkerClosed(w)
    \/ \E w \in Live : ExecuteDeleteWith(w, ThrottleOutcomes)
    \/ \E w \in Live : ExecuteReport(w)
    \/ \E w \in Live : FbRecv(w)
    \/ \E w \in Live : FbKill(w)
    \/ FbWake
    \/ AggDeleted

SpecThrottle == InitThrottle /\ [][NextThrottle]_vars

\* ------------------------------------------------ the error queue, full
\* SpecErrFull starts where main has submitted Failed batches of one key,
\* the workers have executed them, each delete call was answered with an
\* error other than SlowDown, and the aggregation goroutine has not run
\* yet, so the errors are all on the error queue; it goes on from there.
Failed == ErrorsCap - 1

ErrOutcomes == {"ok", "Error"}

InitErrFull ==
    /\ flagPool = 2
    /\ flagDryrun = FALSE
    /\ flagOutput = TRUE
    /\ flagFile = TRUE
    /\ batchSize = 1
    /\ numKeys = ErrorsCap + MaxErrBlocked
    /\ scanner = [buf |-> <<FileLine(Failed)>>, pos |-> Failed,
                  err |-> FALSE, ioerr |-> FALSE]
    /\ mainpc = "scan"
    /\ exitCode = -1
    /\ Size = flagPool
    /\ tasks = <<>>
    /\ closed = FALSE
    /\ errors = [i \in 1..Failed |-> i]
    /\ wg = flagPool
    /\ mu = FALSE
    /\ workers = NewPoolWorkers(flagPool)
    /\ fbpc = "recv"
    /\ resizeTo = flagPool
    /\ deletedObjects = <<>>
    /\ totalObjects = Failed
    /\ totalDeletedObjects = 0
    /\ outputFile = <<>>
    /\ hist = [i \in 1..Failed |->
                 [NewHist EXCEPT !.execs = 1, !.calls = 1, !.errs = 1,
                                 !.result = "Error", !.Objects = <<FileLine(i)>>]]
    /\ dequeued = [i \in 1..Failed |-> i]
    /\ late = {}
    /\ resized = <<>>
    /\ listed = <<>>

NextErrFull ==
    \/ MainScan
    \/ MainExec
    \/ MainClose
    \/ MainWait
    \/ \E w \in Live : WorkerTake(w)
    \/ \E w \in Live : WorkerClosed(w)
    \/ \E w \in Live : WorkerSendErr(w)
    \/ \E w \in Live : ExecuteDeleteWith(w, ErrOutcomes)
    \/ \E w \in Live : ExecuteReport(w)
    \/ AggDeleted
    \/ AggError

SpecErrFull == InitErrFull /\ [][NextErrFull]_vars

\* ------------------------------------------------------ the scanners
\* SpecScan: the scan loop of main over either scanner, for any source of up
\* to MaxLines keys and any batch size, before a worker is scheduled.  Any
\* read of the key file and any list call may fail.
AllFails == IF flagFile THEN 0..batchSize ELSE 0..1

InitScan ==
    /\ flagPool = 1
    /\ flagDryrun = TRUE
    /\ flagOutput = TRUE
    /\ flagFile \in BOOLEAN
    /\ batchSize \in 1..MaxScanBatch
    /\ numKeys \in 0..MaxLines
    /\ scanner = [buf |-> <<>>, pos |-> 0, err |-> FALSE, ioerr |-> FALSE]
    /\ mainpc = "scan"
    /\ exitCode = -1
    /\ Size = flagPool
    /\ tasks = <<>>
    /\ closed = FALSE
    /\ errors = <<>>
    /\ wg = flagPool
    /\ mu = FALSE
    /\ workers = NewPoolWorkers(flagPool)
    /\ fbpc = "recv"
    /\ resizeTo = flagPool
    /\ deletedObjects = <<>>
    /\ totalObjects = 0
    /\ totalDeletedObjects = 0
    /\ outputFile = <<>>
    /\ hist = <<>>
    /\ dequeued = <<>>
    /\ late = {}
    /\ resized = <<>>
    /\ listed = <<>>

NextScan ==
    \/ MainScanWith(AllFails)
    \/ MainExec

SpecScan == InitScan /\ [][NextScan]_vars

\* --------------------------------------------------------------- helpers
Submitted == 1..Len(hist)

\* the live workers holding task t
Holders(t) == {w \in Live : w.task.id = t}

RECURSIVE SumLen(_)
\* the number of keys in a sequence of batches
SumLen(q) == IF Len(q) = 0 THEN 0 ELSE Len(Head(q)) + SumLen(Tail(q))

RECURSIVE ReportedKeysFrom(_)
\* the number of keys of the tasks i.. that were reported on deletedObjects
ReportedKeysFrom(i) ==
    IF i > Len(hist) THEN 0
    ELSE hist[i].reported * Len(hist[i].Objects) + ReportedKeysFrom(i + 1)

RECURSIVE SignalsFrom(_)
\* the throttle signals of tasks i.. accepted by the feedback goroutine
SignalsFrom(i) == IF i > Len(hist) THEN 0 ELSE hist[i].signals + SignalsFrom(i + 1)

\* how often line occurs in the output file
Occurrences(line) == Cardinality({i \in 1..Len(outputFile) : outputFile[i] = line})

\* the keys of the batches reported deleted
ReportedKeys ==
    UNION {{hist[t].Objects[i] : i \in 1..Len(hist[t].Objects)} :
             t \in {u \in Submitted : hist[u].reported > 0}}

\* ---------------------------------------------------------------- claims
\* C1: no task is ever executed twice or held by two workers, and once
\* Close() and Wait() have returned every submitted task has had Execute
\* called exactly once and Execute has returned, whatever the feedback
\* goroutine did to the pool's size.
C1_ExactlyOnce ==
    /\ \A t \in Submitted :
         /\ hist[t].execs <= 1
         /\ \A w \in Holders(t) : workers[w] = 1 /\ Holders(t) = {w}
    /\ mainpc = "done" =>
         /\ workers = EmptyBag /\ Len(tasks) = 0
         /\ \A t \in Submitted : hist[t].execs = 1 /\ hist[t].result # "none"

\* C1 witness: Wait() has returned after two tasks and a shrink of the pool
C1_Witness ==
    /\ mainpc = "done" /\ Len(hist) >= 2 /\ Size < flagPool
    /\ \A t \in Submitted : hist[t].execs = 1

\* C2: a pool created with size >= 1 never has Size below 1.
C2_SizeAtLeastOne == flagPool >= 1 => Size >= 1

\* C2 witness: a pool of two has shrunk to one and a second signal was
\* handled at Size = 1
C2_Witness ==
    flagPool = 2 /\ Size = 1 /\ SignalsFrom(1) = 2 /\ fbpc = "sleep"

\* C3 as stated: of the throttle signals that several workers raise at the
\* same time, those left pending when the feedback goroutine accepts one
\* and goes into its delay cause no further shrink.
C3_SingleShrink ==
    [][\A t \in late : hist'[t].signals # hist[t].signals => Size' = Size]_vars

\* C3 amended: every change of Size is the acceptance of one throttle
\* signal by the receiving feedback goroutine and is a shrink by exactly one
\* from a size above 1; a signal left pending when another is accepted is
\* not dropped: its sender stays blocked until the signal is accepted, and
\* then it shrinks the pool like any other; the feedback goroutine goes
\* through its delay between two acceptances.
C3_OneShrinkPerSignal ==
    [][/\ Size' # Size =>
            /\ fbpc = "recv" /\ fbpc' = "kill"
            /\ Size > 1 /\ Size' = Size - 1
            /\ SignalsFrom(1)' = SignalsFrom(1) + 1
       /\ SignalsFrom(1)' # SignalsFrom(1) =>
            /\ fbpc = "recv" /\ fbpc' \in {"kill", "sleep"}
            /\ Size' = IF Size > 1 THEN Size - 1 ELSE Size
            /\ SignalsFrom(1)' = SignalsFrom(1) + 1
       /\ fbpc # "recv" /\ fbpc' = "recv" => fbpc = "sleep"
       /\ \A t \in late :
            /\ \E w \in Live : w.task.id = t /\ w.pc = "notify"
            /\ t \notin late' => hist'[t].signals = hist[t].signals + 1
       /\ \A t \in late :
            hist'[t].signals # hist[t].signals =>
                Size' = IF Size > 1 THEN Size - 1 ELSE Size]_vars

\* C3 witness: of two signals raised together the first has shrunk the
\* pool, the delay is over, and the second is still pending with the pool
\* above one worker
C3_Witness ==
    /\ late # {} /\ fbpc = "recv" /\ flagPool - Size = 1 /\ Size > 1
    /\ \E w \in Live : w.pc = "notify" /\ w.task.id \in late

\* C4: a task whose (first) delete call ended in a non-throttling error had
\* exactly one delete call, emitted no throttle signal, was never sent on
\* deletedObjects, and has one error on the pool's error queue once the
\* worker has let go of it (none before).
C4_PermanentErrorOnce ==
    \A t \in Submitted :
        (hist[t].result = "Error" /\ hist[t].slow = 0) =>
            /\ hist[t].calls = 1
            /\ hist[t].signals = 0
            /\ hist[t].reported = 0
            /\ hist[t].errs = IF Holders(t) = {} THEN 1 ELSE 0
            /\ \A w \in Holders(t) : w.pc = "senderr"

\* C4 witness: a failed task's error is on the error queue
C4_Witness ==
    \E t \in Submitted :
        /\ hist[t].result = "Error" /\ hist[t].slow = 0 /\ hist[t].errs = 1
        /\ \E i \in 1..Len(errors) : errors[i] = t

C6_Dryrun ==
    flagDryrun =>
        /\ \A t \in Submitted :
             /\ hist[t].calls = 0 /\ hist[t].slow = 0 /\ hist[t].signals = 0
             /\ hist[t].errs = 0 /\ hist[t].result \in {"none", "nil"}
             /\ hist[t].reported = IF hist[t].result = "nil" THEN 1 ELSE 0
             /\ hist[t].execs = 1 /\ Holders(t) = {} => hist[t].result = "nil"
        /\ Len(errors) = 0
        /\ totalDeletedObjects + SumLen(deletedObjects) = ReportedKeysFrom(1)

\* C6 witness: a dry run has counted two batches, all keys of the source
C6_Witness ==
    /\ flagDryrun /\ Len(hist) >= 2 /\ numKeys >= 2
    /\ totalDeletedObjects = numKeys

\* C7 as stated: when main has returned from Wait() in a run where every
\* task succeeded, the completed counter is the number of keys submitted.
C7_AllCounted ==
    (mainpc = "done" /\ \A t \in Submitted : hist[t].result = "nil") =>
        totalDeletedObjects = totalObjects

\* C8 as stated: when main has returned from Wait() with the output file
\* enabled, the file holds one line for each key of each batch reported
\* deleted, once, and nothing else.
C8_OutputExact ==
    (mainpc = "done" /\ flagOutput) =>
        /\ \A k \in ReportedKeys : Occurrences(OutputLine(k)) = 1
        /\ \A i \in 1..Len(outputFile) : \E k \in ReportedKeys : outputFile[i] = OutputLine(k)

\* C9: main, at pool.Exec, can enqueue exactly when the task queue holds
\* fewer than 128 tasks (it blocks at 128 until a worker dequeues); the
\* queue never holds more; and the workers have dequeued the tasks in the
\* order of their submission.
C9_ExecBlocksWhenFull ==
    /\ Len(tasks) <= 128
    /\ (Running /\ mainpc = "exec") => (ENABLED MainExec <=> Len(tasks) < 128)
    /\ dequeued = [i \in 1..Len(dequeued) |-> i]
    /\ \A i \in 1..Len(tasks) : tasks[i].id = Len(dequeued) + i

\* C9 witness: main is blocked in Exec on a full queue after a worker has
\* dequeued a task
C9_Witness ==
    /\ Running /\ mainpc = "exec" /\ Len(tasks) = 128 /\ ~ENABLED MainExec
    /\ Len(dequeued) >= 1

\* C10 as stated: when the process exits on a scanner error the task queue
\* was drained: every submitted batch was executed.
C10_DrainBeforeExit ==
    mainpc = "exit" =>
        /\ Len(tasks) = 0
        /\ \A t \in Submitted : hist[t].execs = 1 /\ hist[t].result # "none"

\* C10 amended: once the scanner holds a terminal error the process has
\* exited with code 1 at once, without Close(): the queue is still open and
\* nothing was done to the tasks submitted.
C10_AbruptExit ==
    /\ scanner.err => mainpc = "exit"
    /\ mainpc = "exit" => ScannerErr(scanner) /\ exitCode = 1 /\ ~closed /\ wg > 0

\* C10 witness: the process has exited on a scanner error with a batch
\* still queued
C10_Witness == mainpc = "exit" /\ exitCode = 1 /\ Len(tasks) > 0

\* C11: a Resize(k) call made when the previous Resize call was Resize(k)
\* and has returned spawns no worker, sends no kill signal, and leaves
\* Size, the wait group and the live workers as they were; and whenever a
\* Resize(k) has returned, Size is k.
C11_ResizeIdempotent ==
    [][/\ (fbpc' = "call" /\ resized' # <<>>) => Size' = resized'[Len(resized')]
       /\ (/\ fbpc = "call" /\ resized # <<>>
           /\ resized' = Append(resized, resized[Len(resized)])) =>
               /\ Size' = Size /\ wg' = wg /\ workers' = workers
               /\ fbpc' = "call" /\ mu' = mu]_vars

\* C11 witness: Resize(1) has shrunk a pool of two to one worker and two
\* further Resize(1) calls have returned
C11_Witness ==
    /\ flagPool = 2 /\ resized = <<1, 1, 1>> /\ fbpc = "call"
    /\ Size = 1 /\ BagCardinality(workers) = 1

\* ceil(l / n)
Ceil(l, n) == (l + n - 1) \div n

\* the t-th batch of n lines of a file of l lines
Batch(t, l, n) ==
    [i \in 1..((IF t * n < l THEN t * n ELSE l) - (t - 1) * n) |-> FileLine((t - 1) * n + i)]

RECURSIVE Concat(_, _)
\* the keys of the first t submitted batches, in order
Concat(h, t) == IF t = 0 THEN <<>> ELSE Concat(h, t - 1) \o h[t].Objects

\* C12: over a key file of L lines read without error, with batch size N,
\* Scan returns true ceil(L/N) times and then false with Err() nil; each
\* batch has N keys but a last one of L mod N keys when N does not divide
\* L; the batches, in order, are the lines of the file.  (Every true return
\* is followed by one Exec, so hist holds the batches returned.)
C12_FileBatches ==
    (flagFile /\ ~scanner.ioerr) =>
        LET L == numKeys
            N == batchSize
            returned == Len(hist) + (IF mainpc = "exec" THEN 1 ELSE 0)
        IN /\ returned <= Ceil(L, N)
           /\ \A t \in 1..Len(hist) :
                /\ hist[t].Objects = Batch(t, L, N)
                /\ Len(hist[t].Objects) =
                     IF t < Ceil(L, N) \/ L % N = 0 THEN N ELSE L % N
           /\ mainpc = "exec" => scanner.buf = Batch(returned, L, N)
           /\ mainpc # "exit"
           /\ mainpc = "close" =>
                /\ returned = Ceil(L, N)
                /\ ~ScannerErr(scanner) /\ Running
                /\ Concat(hist, Len(hist)) = [i \in 1..L |-> FileLine(i)]

\* C12 witness: a file of 5 lines scanned by 2 gave 2, 2, 1, false
C12_Witness ==
    /\ flagFile /\ ~scanner.ioerr /\ numKeys = 5 /\ batchSize = 2
    /\ mainpc = "close" /\ Len(hist) = 3 /\ Len(hist[3].Objects) = 1

\* C13: over the listing scanner, while no list call fails: every Scan made
\* one list call; the first was passed the nil marker and each later one
\* the last key of the page before it; Scan returned true on a non-empty
\* page, whose objects are the batch, and false with Err() nil on an empty
\* one.
C13_ListMarkers ==
    (~flagFile /\ ~scanner.ioerr) =>
        LET scans == Len(hist) + (IF mainpc = "scan" THEN 0 ELSE 1)
            page(i) == ListFrom(listed[i], batchSize)
        IN /\ Len(listed) = scans
           /\ \A i \in 1..Len(listed) :
                listed[i] = IF i = 1 THEN 0
                            ELSE hist[i - 1].Objects[Len(hist[i - 1].Objects)]
           /\ \A t \in 1..Len(hist) : hist[t].Objects = page(t) /\ page(t) # <<>>
           /\ mainpc = "exec" => scanner.buf = page(scans) /\ page(scans) # <<>>
           /\ mainpc # "exit"
           /\ mainpc = "close" =>
                page(scans) = <<>> /\ ~ScannerErr(scanner) /\ Running

\* C13 witness: pages of 3, 3 and 0 objects gave true, true, false, and the
\* second and third list calls were passed the keys 3 and 6
C13_Witness ==
    /\ ~flagFile /\ ~scanner.ioerr /\ numKeys = 6 /\ batchSize = 3
    /\ mainpc = "close" /\ Len(hist) = 2 /\ listed = <<0, 3, 6>>

\* C14 as stated: when every delete call succeeds after finitely many
\* SlowDown answers, no state is reached in which every live worker is
\* blocked in slowDown <- 1 while the feedback goroutine is blocked in
\* Resize's p.kill <- struct{}{}.
C14_NoDeadlock ==
    ~(/\ Running /\ fbpc = "kill"
      /\ workers # EmptyBag
      /\ \A w \in Live : w.pc = "notify")

\* C15 as stated: while a kill signal is offered and a task is queued, the
\* one idle worker does not dequeue the task.
C15_KillFirst ==
    [][(/\ Running /\ fbpc = "kill" /\ Len(tasks) > 0
        /\ CopiesIn(Idle, workers) = 1) => dequeued' = dequeued]_vars

\* C15 amended: an idle worker to which both a queued task and a kill
\* signal are available may take either: both cases of its select are
\* ready.
C15_SelectEitherCase ==
    \A w \in Live :
        (Running /\ w.pc = "idle" /\ Len(tasks) > 0 /\ fbpc = "kill") =>
            ENABLED WorkerTake(w) /\ ENABLED FbKill(w)

\* C15 witness: one idle worker, a queued task and a pending kill signal
C15_Witness ==
    /\ Running /\ fbpc = "kill" /\ Len(tasks) > 0
    /\ CopiesIn(Idle, workers) = 1

\* C16 as stated: a worker that has a task's error to forward can always
\* go on, also when the error queue is full.
C16_SendErrNeverBlocks ==
    \A w \in Live : (Running /\ w.pc = "senderr") => ENABLED WorkerSendErr(w)

\* C16 amended: the error queue holds at most 10 errors; a worker with an
\* error to forward can go on exactly when the queue holds fewer than 10,
\* and waits otherwise, holding its task; no error is dropped: every failed
\* task a worker has let go of has its error sent.
C16_SendErrBlocksWhenFull ==
    /\ Len(errors) <= 10
    /\ \A w \in Live :
         (Running /\ w.pc = "senderr") =>
             /\ ENABLED WorkerSendErr(w) <=> Len(errors) < 10
             /\ hist[w.task.id].errs = 0
    /\ \A t \in Submitted :
         (hist[t].result = "Error" /\ Holders(t) = {}) => hist[t].errs = 1

\* C16 witness: a worker waits to forward an error, the queue holding 10
C16_Witness ==
    /\ Running /\ Len(errors) = 10
    /\ \E w \in Live : w.pc = "senderr" /\ ~ENABLED WorkerSendErr(w)

\* C17: the workers grow fewer only by the return of one idle worker; a
\* kill signal is delivered only to an idle worker, and its delivery makes
\* exactly one worker return (one Done on the wait group); while the queue
\* is open or holds tasks, a worker returns only on a kill signal.  So a
\* worker holding a task is never ended by a kill signal.
C17_KillOnlyIdle ==
    [][LET delivered == fbpc = "kill" /\ (fbpc' # "kill" \/ Size' # Size)
           exited == BagCardinality(workers') < BagCardinality(workers)
           oneIdleLess == /\ BagIn(Idle, workers)
                          /\ workers' = workers (-) SetToBag({Idle})
                          /\ wg' = wg - 1
       IN /\ exited => oneIdleLess
          /\ delivered => oneIdleLess
          /\ (exited /\ ~(closed /\ Len(tasks) = 0)) => delivered
          /\ \A w \in Live : w.pc # "idle" =>
                \/ CopiesIn(w, workers') = 1
                \/ \E v \in BagToSet(workers') :
                      v.pc # w.pc /\ (v.task = w.task \/ v = Idle)]_vars

\* C17 witness: a kill signal was delivered to an idle worker while another
\* worker holds a task it has made a delete call for
C17_Witness ==
    /\ ~closed /\ fbpc = "sleep" /\ Len(resized) = 1 /\ wg = flagPool - 1
    /\ \E w \in Live : w.pc = "exec" /\ hist[w.task.id].calls >= 1

\* C18: while the task queue is open the live workers are never fewer than
\* Size, they are more (by the one kill signal not yet delivered) only
\* while a Resize call is shrinking the pool, and they are Size whenever no
\* Resize call is in progress; the wait group counts them.
C18_LiveWorkersMatchSize ==
    ~closed =>
        LET live == BagCardinality(workers)
        IN /\ live >= Size
           /\ live > Size => mu /\ fbpc = "kill" /\ live = Size + 1
           /\ ~mu => live = Size
           /\ wg = live

\* C18 witness: the queue is open and a Resize call has returned, having
\* shrunk the pool of three to two workers
C18_Witness ==
    /\ ~closed /\ ~mu /\ flagPool = 3 /\ Size = 2 /\ BagCardinality(workers) = 2
    /\ resized = <<2>>

\* C19: Size never increases; a step changes Size only if in it the
\* feedback goroutine accepts a throttle signal and calls Resize(Size - 1);
\* a step in which a throttle signal is accepted makes Size one less when
\* Size > 1 and leaves it when Size = 1.
C19_SizeNeverGrows ==
    [][LET accepted == SignalsFrom(1)' = SignalsFrom(1) + 1
       IN /\ Size' <= Size
          /\ Size' # Size =>
                /\ accepted /\ fbpc = "recv"
                /\ resized' = Append(resized, Size - 1)
          /\ SignalsFrom(1)' # SignalsFrom(1) =>
                /\ accepted
                /\ Size' = IF Size > 1 THEN Size - 1 ELSE 1]_vars

\* C19 witness: two throttle signals have taken a pool of three to one
\* worker, both kill signals delivered
C19_Witness ==
    /\ flagPool = 3 /\ Size = 1 /\ resized = <<2, 1>> /\ fbpc = "sleep" /\ wg <= 1

\* C20: once the scan loop has ended (Scan returned false), Err() is
\* non-nil exactly if a read of the source failed, and a failed source ends
\* the run with exit status 1.  FileScanner.Err() returns nil whatever
\* happened, so a key file whose read fails ends the run as if exhausted.
C20_ErrTellsFailure ==
    mainpc \in {"close", "exit"} =>
        /\ ScannerErr(scanner) <=> scanner.ioerr
        /\ scanner.ioerr => mainpc = "exit" /\ exitCode = 1

RECURSIVE SubmittedKeysFrom(_)
\* the number of keys of the tasks handed to pool.Exec, from the i-th on
SubmittedKeysFrom(i) ==
    IF i > Len(hist) THEN 0 ELSE Len(hist[i].Objects) + SubmittedKeysFrom(i + 1)

\* C21: the completed counter never exceeds the seen counter: the seen
\* counter is the keys of the batches submitted plus those of the batch
\* scanned and about to be submitted, the completed counter plus the
\* batches waiting on deletedObjects is at most the keys of the batches
\* submitted; and no step decreases either counter.
C21_DeletedAtMostSeen ==
    /\ [](/\ totalDeletedObjects <= totalObjects
          /\ totalObjects = SubmittedKeysFrom(1) +
                (IF mainpc = "exec" THEN Len(scanner.buf) ELSE 0)
          /\ totalDeletedObjects + SumLen(deletedObjects) <= SubmittedKeysFrom(1))
    /\ [][/\ totalObjects' >= totalObjects
          /\ totalDeletedObjects' >= totalDeletedObjects]_vars

\* C21 witness: a second batch has been counted as seen and is about to be
\* submitted while the first has been counted as completed
C21_Witness ==
    /\ mainpc = "exec" /\ Len(hist) = 1 /\ Len(scanner.buf) > 0
    /\ totalDeletedObjects = Len(hist[1].Objects)
    /\ totalObjects = totalDeletedObjects + Len(scanner.buf)

====
